---- MODULE Spec2Model ----
(***************************************************************************)
(* A model of the openbook templater (templater/src/main.rs): one run is   *)
(* the linear pipeline of main(), and successive runs share only the file  *)
(* system.  Strings are sequences of byte values, so that string equality, *)
(* ordering, concatenation and replacement are computed as the code        *)
(* computes them.                                                          *)
(***************************************************************************)
EXTENDS Integers, Sequences, FiniteSets, TLC

\* ------------------------------------------------------------------ bounds
MaxSongs == 3
MaxRuns == 2

\* ----------------------------------------------------------- string texts
STR_c == <<99>>
STR_bb == <<98, 98>>
STR_eb == <<101, 98>>
STR_testing_f == <<116, 101, 115, 116, 105, 110, 103, 45, 102>>
STR_Concert == <<67, 111, 110, 99, 101, 114, 116>>
STR_c_c == <<99, 32, 99>>
STR_Bb == <<66, 98>>
STR_c_d == <<99, 32, 100>>
STR_Eb == <<69, 98>>
STR_ees_c == <<101, 101, 115, 32, 99>>
STR_Testing == <<84, 101, 115, 116, 105, 110, 103>>
STR_c_g == <<99, 32, 103>>
STR_openbook == <<111, 112, 101, 110, 98, 111, 111, 107, 45>>
STR_dot_ly == <<46, 108, 121>>
STR_TRANSPOSE == <<37, 37, 84, 82, 65, 78, 83, 80, 79, 83, 69, 37, 37>>
STR_NUM_TUNES == <<37, 37, 78, 85, 77, 95, 84, 85, 78, 69, 83, 37, 37>>
STR_parse_err == <<85, 110, 97, 98, 108, 101, 32, 116, 111, 32, 112, 97, 114,
                   115, 101, 32, 116, 114, 97, 110, 115, 112, 111, 115, 101,
                   32, 105, 110, 112, 117, 116, 32, 111, 102, 32, 91>>
STR_rbracket == <<93>>
STR_closing == <<125, 10>>
STR_bass == <<98, 97, 115, 115>>
STR_testing == <<116, 101, 115, 116, 105, 110, 103>>

\* Option<T> is a sequence of at most one element.
None == <<>>
Some(v) == <<v>>

\* ------------------------------------------------------- pure operations
\* u8::to_ascii_uppercase / to_ascii_lowercase
to_ascii_uppercase(b) == IF b >= 97 /\ b <= 122 THEN b - 32 ELSE b
to_ascii_lowercase(b) == IF b >= 65 /\ b <= 90 THEN b + 32 ELSE b

\* utils::capitalize_first_letter_ascii
capitalize_first_letter_ascii(s) ==
    IF s = <<>> THEN s ELSE <<to_ascii_uppercase(Head(s))>> \o Tail(s)

\* str::replace: every non-overlapping match of pat, scanning left to right
RECURSIVE replace(_, _, _)
replace(s, pat, rep) ==
    IF Len(s) < Len(pat) THEN s
    ELSE IF SubSeq(s, 1, Len(pat)) = pat
         THEN rep \o replace(SubSeq(s, Len(pat) + 1, Len(s)), pat, rep)
         ELSE <<Head(s)>> \o replace(Tail(s), pat, rep)

\* format!("{}", n) for an unsigned integer: its decimal digits
RECURSIVE format_usize(_)
format_usize(n) ==
    IF n < 10 THEN <<48 + n>> ELSE format_usize(n \div 10) \o <<48 + (n % 10)>>

\* a.title.cmp(&b.title) = Less: byte-wise lexicographic order of Strings
RECURSIVE cmp_less(_, _)
cmp_less(a, b) ==
    IF b = <<>> THEN FALSE
    ELSE IF a = <<>> THEN TRUE
    ELSE IF Head(a) # Head(b) THEN Head(a) < Head(b)
    ELSE cmp_less(Tail(a), Tail(b))

\* the same comparison after folding both titles to lower case
cmp_less_ignore_case(a, b) ==
    cmp_less([n \in DOMAIN a |-> to_ascii_lowercase(a[n])],
             [n \in DOMAIN b |-> to_ascii_lowercase(b[n])])

title_less_ignore_case(a, b) == cmp_less_ignore_case(a.title, b.title)

\* the comparator handed to sort_by on line 88
title_less(a, b) == cmp_less(a.title, b.title)

\* slice::sort_by is a stable sort: an element goes after every element
\* that is not greater than it
RECURSIVE insert_sorted(_, _)
insert_sorted(s, x) ==
    IF s = <<>> THEN <<x>>
    ELSE IF title_less(x, Head(s)) THEN <<x>> \o s
    ELSE <<Head(s)>> \o insert_sorted(Tail(s), x)

RECURSIVE sort_by_title(_)
sort_by_title(s) ==
    IF s = <<>> THEN <<>>
    ELSE insert_sorted(sort_by_title(SubSeq(s, 1, Len(s) - 1)), s[Len(s)])

\* fn transpose_text(input) -> Result<TransposeText, Error>
TransposeText(d, l) == [display_text |-> d, lilypond_text |-> l]
Ok(v) == [ok |-> TRUE, value |-> v, err |-> <<>>]
Err(e) == [ok |-> FALSE, value |-> TransposeText(<<>>, <<>>), err |-> e]

\* a resolver that trims and lower-cases its input before the lookup
Trimmed(s) ==
    LET keep == {n \in DOMAIN s : s[n] # 32}
    IN IF keep = {} THEN <<>>
       ELSE SubSeq(s, CHOOSE n \in keep : \A m \in keep : n <= m,
                      CHOOSE n \in keep : \A m \in keep : n >= m)
Lenient(s) == [n \in DOMAIN Trimmed(s) |-> to_ascii_lowercase(Trimmed(s)[n])]
transpose_text_lenient(input) ==
    CASE Lenient(input) = STR_c -> Ok(TransposeText(STR_Concert, STR_c_c))
      [] Lenient(input) = STR_bb -> Ok(TransposeText(STR_Bb, STR_c_d))
      [] Lenient(input) = STR_eb -> Ok(TransposeText(STR_Eb, STR_ees_c))
      [] Lenient(input) = STR_testing_f -> Ok(TransposeText(STR_Testing, STR_c_g))
      [] OTHER -> Err(STR_parse_err \o input \o STR_rbracket)

transpose_text(input) ==
    CASE input = STR_c -> Ok(TransposeText(STR_Concert, STR_c_c))
      [] input = STR_bb -> Ok(TransposeText(STR_Bb, STR_c_d))
      [] input = STR_eb -> Ok(TransposeText(STR_Eb, STR_ees_c))
      [] input = STR_testing_f -> Ok(TransposeText(STR_Testing, STR_c_g))
      [] OTHER -> Err(STR_parse_err \o input \o STR_rbracket)


\* ------------------------------------------------------------ environment
\* --transpose values tried: the table keys, their case and whitespace
\* variants, and a few strangers ("bass" is what --help advertises)
TableKeys == {STR_c, STR_bb, STR_eb, STR_testing_f}
KeyInputs ==
    TableKeys
    \cup {[n \in DOMAIN k |-> to_ascii_uppercase(k[n])] : k \in TableKeys}
    \cup {capitalize_first_letter_ascii(k) : k \in TableKeys}
    \cup {<<32>> \o k : k \in TableKeys}
    \cup {k \o <<32>> : k \in TableKeys}
    \cup {<<>>, STR_bass, STR_testing, STR_Concert, STR_c_c}

\* song titles: "B" < "a" < "aB" byte-wise, but "a" < "aB" < "B" folded
Titles == {<<66>>, <<97>>, <<97, 66>>}

\* the front matter of a song file: with a title line, or without one
FrontMatters == {<<>>} \cup {<<[key |-> "title", value |-> t]>> : t \in Titles}

\* ./songs as get_files_by_ext finds it: the k-th file has the k-th body
SongDirs ==
    UNION {[1..n -> FrontMatters] : n \in 0..MaxSongs}
SongFile(dir, k) == [front_matter |-> dir[k], document |-> k]

\* template texts, as a list of literal pieces and placeholder pieces
IntroShape ==
    <<<<84, 58>>, STR_TRANSPOSE, <<32, 78, 58>>, STR_NUM_TUNES, <<47>>, STR_TRANSPOSE>>
VoiceShape == <<<<116, 114, 32>>, STR_TRANSPOSE, <<32, 123>>>>

RECURSIVE Flatten(_)
Flatten(shape) ==
    IF shape = <<>> THEN <<>> ELSE Head(shape) \o Flatten(Tail(shape))

TemplateOrder ==
    <<"intro", "bookpart", "song-body", "song-header", "voice", "lyrics", "chords">>
TemplateNames == {TemplateOrder[n] : n \in DOMAIN TemplateOrder}

TemplateDir ==
    [n \in TemplateNames |->
        CASE n = "intro" -> Flatten(IntroShape)
          [] n = "voice" -> Flatten(VoiceShape)
          [] n = "bookpart" -> <<98>>
          [] n = "song-body" -> <<115, 98>>
          [] n = "song-header" -> <<115, 104>>
          [] n = "lyrics" -> <<108>>
          [] n = "chords" -> <<99, 104>>]

\* ------------------------------------------------------------------ state
VARIABLES
    songsDir,    \* ./songs: the front matter of each *.ly file, in discovery order
    templates,   \* ./templates: name -> text
    fs,          \* the working directory: output file name -> chunks written
    fs0,         \* the working directory as the current run found it
    run,         \* number of the current run
    pc,          \* the stage of main() the run is at (or ended at), "end" past the last
    exit_code,   \* process exit status, -1 while running
    panic,       \* the panic message, "" if none
    stderr,      \* lines printed with eprintln!
    stdout,      \* titles printed with println!("Handling {}")
    args,        \* AppArgs.transpose : Option<String>
    conf,        \* TemplaterConfig.transpose_text
    paths,       \* the Vec<PathBuf> of get_files_by_ext (indices into songsDir)
    songs,       \* Vec<Song>
    cells,       \* the OnceCell statics: name -> Option<String>
    t,           \* position of init_static in TemplateOrder
    outfile,     \* Option<file name> of the open output handle
    j            \* position of the write loop in songs

vars == <<songsDir, templates, fs, fs0, run, pc, exit_code, panic, stderr,
          stdout, args, conf, paths, songs, cells, t, outfile, j>>

env == <<songsDir, templates>>

\* orders of the stages other than that of main()
PipelineCreateBeforeTemplates ==
    <<"parse_args", "resolve", "discover", "parse_songs",
      "create", "init_static", "write_intro", "write_songs", "write_close">>
PipelineCreateBeforeSongs ==
    <<"parse_args", "resolve", "create", "discover", "parse_songs",
      "init_static", "write_intro", "write_songs", "write_close">>
PipelineTemplatesBeforeSongs ==
    <<"parse_args", "resolve", "init_static", "discover", "parse_songs",
      "create", "write_intro", "write_songs", "write_close">>
PipelineCloseBeforeSongs ==
    <<"parse_args", "resolve", "discover", "parse_songs",
      "init_static", "create", "write_intro", "write_close", "write_songs">>

\* the order of the stages of main()
Pipeline ==
    <<"parse_args", "resolve", "discover", "parse_songs",
      "init_static", "create", "write_intro", "write_songs", "write_close">>

StageIndex(s) == CHOOSE n \in DOMAIN Pipeline : Pipeline[n] = s
NextStage(s) ==
    IF StageIndex(s) = Len(Pipeline) THEN "end" ELSE Pipeline[StageIndex(s) + 1]

NoConf == TransposeText(<<>>, <<>>)
EmptyCells == [n \in TemplateNames |-> None]

\* a fresh process: statics unset, nothing parsed, no handle open
ProcessStart ==
    /\ pc = Pipeline[1]
    /\ exit_code = -1
    /\ panic = ""
    /\ stderr = <<>>
    /\ stdout = <<>>
    /\ args = None
    /\ conf = NoConf
    /\ paths = <<>>
    /\ songs = <<>>
    /\ cells = EmptyCells
    /\ t = 1
    /\ outfile = None
    /\ j = 1

Init ==
    /\ songsDir \in SongDirs
    /\ templates = TemplateDir
    /\ fs = << >>
    /\ fs0 = << >>
    /\ run = 1
    /\ ProcessStart

Running == exit_code = -1

\* std::process::exit(code): the run ends at the stage it is in
Exit(code) ==
    /\ pc' = pc
    /\ exit_code' = code
    /\ panic' = ""

\* unwrap()/expect() on an Err or None: the process panics (status 101)
Panic(msg) ==
    /\ pc' = pc
    /\ exit_code' = 101
    /\ panic' = msg

\* moving on to the stage after s; main() returning exits with status 0
Advance(s) ==
    /\ pc' = NextStage(s)
    /\ exit_code' = IF NextStage(s) = "end" THEN 0 ELSE exit_code
    /\ panic' = panic


\* ------------------------------------------------------- steps of main()
STR_arg_error == <<69, 114, 114, 111, 114, 58>>

\* parse_args(): pico_args rejects the command line, or --help is given,
\* or the arguments come back with the optional --transpose value
ParseArgs ==
    /\ pc = "parse_args"
    /\ Running
    /\ \/ /\ stderr' = Append(stderr, STR_arg_error)
          /\ Exit(1)
          /\ UNCHANGED args
       \/ /\ Exit(0)
          /\ UNCHANGED <<stderr, args>>
       \/ /\ \E a \in {None} \cup {Some(k) : k \in KeyInputs} : args' = a
          /\ Advance("parse_args")
          /\ UNCHANGED stderr
    /\ UNCHANGED <<env, fs, fs0, run, stdout, conf, paths, songs, cells, t,
                   outfile, j>>

\* args.transpose.unwrap_or_else(|| String::from("c"))
unwrap_or_bass(a) == IF a = None THEN STR_bass ELSE a[1]
unwrap_or_c(a) == IF a = None THEN STR_c ELSE a[1]

\* resolving the transposition: an unknown key is printed and the process
\* exits with status 0
ResolveTranspose ==
    /\ pc = "resolve"
    /\ Running
    /\ LET r == transpose_text(unwrap_or_c(args)) IN
          IF r.ok
          THEN /\ conf' = r.value
               /\ Advance("resolve")
               /\ UNCHANGED stderr
          ELSE /\ stderr' = Append(stderr, r.err)
               /\ Exit(0)
               /\ UNCHANGED conf
    /\ UNCHANGED <<env, fs, fs0, run, stdout, args, paths, songs, cells, t,
                   outfile, j>>

\* utils::get_files_by_ext(./songs, "ly"): the song files, in directory order
get_files_by_ext(dir) == [k \in 1..Len(dir) |-> k]

Discover ==
    /\ pc = "discover"
    /\ Running
    /\ paths' = get_files_by_ext(songsDir)
    /\ Advance("discover")
    /\ UNCHANGED <<env, fs, fs0, run, stderr, stdout, args, conf, songs,
                   cells, t, outfile, j>>

\* models::Song::new(front_matter, document, transpose_text): the title is
\* required; None stands for the panic on its absence
HasTitle(front_matter) == \E n \in DOMAIN front_matter : front_matter[n].key = "title"
TitleOf(front_matter) ==
    front_matter[CHOOSE n \in DOMAIN front_matter : front_matter[n].key = "title"].value
Song_new(front_matter, document, transpose) ==
    IF HasTitle(front_matter)
    THEN Some([title |-> TitleOf(front_matter), document |-> document,
               transpose_text |-> transpose])
    ELSE None

\* one turn of the map closure of lines 79-86, on the next path
ParseSong ==
    /\ pc = "parse_songs"
    /\ Running
    /\ Len(songs) < Len(paths)
    /\ LET file == SongFile(songsDir, paths[Len(songs) + 1])
           song == Song_new(file.front_matter, file.document, conf)
       IN \/ /\ Panic("read_to_string: called Result::unwrap() on an Err value")
             /\ UNCHANGED songs
          \/ IF song # None
             THEN /\ songs' = Append(songs, song[1])
                  /\ UNCHANGED <<pc, exit_code, panic>>
             ELSE /\ Panic("MissingTitle")
                  /\ UNCHANGED songs
    /\ UNCHANGED <<env, fs, fs0, run, stderr, stdout, args, conf, paths,
                   cells, t, outfile, j>>

\* collect() ends and line 88 sorts the songs by title
SortSongs ==
    /\ pc = "parse_songs"
    /\ Running
    /\ Len(songs) = Len(paths)
    /\ songs' = sort_by_title(songs)
    /\ Advance("parse_songs")
    /\ UNCHANGED <<env, fs, fs0, run, stderr, stdout, args, conf, paths,
                   cells, t, outfile, j>>

\* renderings other than those of init_static
intro_template_one_more(text, c, num_songs) ==
    replace(replace(text, STR_TRANSPOSE, capitalize_first_letter_ascii(c.display_text)),
            STR_NUM_TUNES, format_usize(num_songs + 1))
voice_template_display(text, c) == replace(text, STR_TRANSPOSE, c.display_text)

\* what init_static stores for each template
intro_template(text, c, num_songs) ==
    replace(replace(text, STR_TRANSPOSE, capitalize_first_letter_ascii(c.display_text)),
            STR_NUM_TUNES, format_usize(num_songs))
voice_template(text, c) == replace(text, STR_TRANSPOSE, c.lilypond_text)

ReadMsg(name) ==
    CASE name = "intro" -> "Unable to read intro template"
      [] name = "bookpart" -> "Unable to read bookpart template"
      [] name = "song-body" -> "Unable to read song body template"
      [] name = "song-header" -> "Unable to read song header template"
      [] name = "voice" -> "Unable to read voice template"
      [] name = "lyrics" -> "Unable to read lyrics template"
      [] name = "chords" -> "Unable to read chords template"

\* init_static(&conf, songs.len()), one template at a time: the file is
\* read (or the expect panics), rendered and stored in its OnceCell
InitStatic ==
    /\ pc = "init_static"
    /\ Running
    /\ LET name == TemplateOrder[t]
           text == CASE name = "intro" -> intro_template(templates[name], conf, Len(songs))
                     [] name = "voice" -> voice_template(templates[name], conf)
                     [] OTHER -> templates[name]
       IN \/ /\ Panic(ReadMsg(name))
             /\ UNCHANGED <<cells, t>>
          \/ IF cells[name] # None
             THEN /\ Panic("Unable to set template")
                  /\ UNCHANGED <<cells, t>>
             ELSE /\ cells' = [cells EXCEPT ![name] = Some(text)]
                  /\ t' = t + 1
                  /\ IF t = Len(TemplateOrder)
                     THEN Advance("init_static")
                     ELSE UNCHANGED <<pc, exit_code, panic>>
    /\ UNCHANGED <<env, fs, fs0, run, stderr, stdout, args, conf, paths,
                   songs, outfile, j>>

\* format!("openbook-{}.ly", display_text)
filename(c) == STR_openbook \o c.display_text \o STR_dot_ly

\* File::create: the file exists afterwards and is empty
File_append(fsys, name) ==
    [f \in DOMAIN fsys \cup {name} |-> IF f \in DOMAIN fsys THEN fsys[f] ELSE <<>>]
File_create(fsys, name) ==
    [f \in DOMAIN fsys \cup {name} |-> IF f = name THEN <<>> ELSE fsys[f]]

CreateOutput ==
    /\ pc = "create"
    /\ Running
    /\ \/ /\ Panic("Unable to create output file")
          /\ UNCHANGED <<fs, outfile>>
       \/ /\ fs' = File_create(fs, filename(conf))
          /\ outfile' = Some(filename(conf))
          /\ Advance("create")
    /\ UNCHANGED <<env, fs0, run, stderr, stdout, args, conf, paths, songs,
                   cells, t, j>>

\* what one write to the output file adds to it
Chunk(kind, text, title, document) ==
    [kind |-> kind, text |-> text, title |-> title, document |-> document]
write(fsys, out, chunk) == [fsys EXCEPT ![out[1]] = Append(@, chunk)]

\* write!(outfile, "{}", INTRO_TEMPLATE.get().unwrap()).unwrap()
WriteIntro ==
    /\ pc = "write_intro"
    /\ Running
    /\ \/ /\ Panic("write: called Result::unwrap() on an Err value")
          /\ UNCHANGED fs
       \/ /\ fs' = write(fs, outfile, Chunk("intro", cells["intro"][1], <<>>, 0))
          /\ Advance("write_intro")
    /\ UNCHANGED <<env, fs0, run, stderr, stdout, args, conf, paths, songs,
                   cells, t, outfile, j>>

\* models::Song::write(&mut outfile): the song's block, rendered from the
\* voice template, goes to the file
Song_write(fsys, out, song, voice) ==
    write(fsys, out, Chunk("song", voice, song.title, song.document))

\* one turn of the loop of lines 97-100
WriteSong ==
    /\ pc = "write_songs"
    /\ Running
    /\ j <= Len(songs)
    /\ stdout' = Append(stdout, songs[j].title)
    /\ fs' = Song_write(fs, outfile, songs[j], cells["voice"][1])
    /\ j' = j + 1
    /\ UNCHANGED <<env, fs0, run, pc, exit_code, panic, stderr, args, conf,
                   paths, songs, cells, t, outfile>>

\* the loop of lines 97-100 ends
WriteSongsDone ==
    /\ pc = "write_songs"
    /\ Running
    /\ j > Len(songs)
    /\ Advance("write_songs")
    /\ UNCHANGED <<env, fs, fs0, run, stderr, stdout, args, conf, paths,
                   songs, cells, t, outfile, j>>

\* writeln!(outfile, "}}").unwrap(), and main() returns
WriteClose ==
    /\ pc = "write_close"
    /\ Running
    /\ \/ /\ Panic("write: called Result::unwrap() on an Err value")
          /\ UNCHANGED fs
       \/ /\ fs' = write(fs, outfile, Chunk("close", STR_closing, <<>>, 0))
          /\ Advance("write_close")
    /\ UNCHANGED <<env, fs0, run, stderr, stdout, args, conf, paths, songs,
                   cells, t, outfile, j>>

\* the program is started again in the same directories
NewRun ==
    /\ ~Running
    /\ run < MaxRuns
    /\ run' = run + 1
    /\ fs0' = fs
    /\ pc' = Pipeline[1]
    /\ exit_code' = -1
    /\ panic' = ""
    /\ stderr' = <<>>
    /\ stdout' = <<>>
    /\ args' = None
    /\ conf' = NoConf
    /\ paths' = <<>>
    /\ songs' = <<>>
    /\ cells' = EmptyCells
    /\ t' = 1
    /\ outfile' = None
    /\ j' = 1
    /\ UNCHANGED <<env, fs>>

Next ==
    \/ ParseArgs
    \/ ResolveTranspose
    \/ Discover
    \/ ParseSong
    \/ SortSongs
    \/ InitStatic
    \/ CreateOutput
    \/ WriteIntro
    \/ WriteSong
    \/ WriteSongsDone
    \/ WriteClose
    \/ NewRun

Spec == Init /\ [][Next]_vars


\* ------------------------------------------------------------- properties
\* the transposition table as the specification lists it
SpecKeys == {STR_c, STR_bb, STR_eb, STR_testing_f}
SpecRow(k) ==
    CASE k = STR_c -> [display_text |-> STR_Concert, lilypond_text |-> STR_c_c]
      [] k = STR_bb -> [display_text |-> STR_Bb, lilypond_text |-> STR_c_d]
      [] k = STR_eb -> [display_text |-> STR_Eb, lilypond_text |-> STR_ees_c]
      [] k = STR_testing_f -> [display_text |-> STR_Testing, lilypond_text |-> STR_c_g]
      [] OTHER -> [display_text |-> <<>>, lilypond_text |-> <<>>]

\* the key of the run: the --transpose value, "c" when the flag is absent
Key == IF args = None THEN STR_c ELSE args[1]
PastResolve == pc \notin {"parse_args", "resolve"}
Failed(stage) == pc = stage /\ ~Running
TemplateFailure == Failed("init_static")

\* what this run has written to its output file
ThisOutput == IF outfile = None THEN <<>> ELSE fs[outfile[1]]
IsSong(chunk) == chunk.kind = "song"
SongChunks(c) == SelectSeq(c, IsSong)

\* a template with its placeholder pieces filled in
Fill(shape, tval, nval) ==
    Flatten([n \in DOMAIN shape |->
                IF shape[n] = STR_TRANSPOSE THEN tval
                ELSE IF shape[n] = STR_NUM_TUNES THEN nval
                ELSE shape[n]])
Digits(n) == IF n < 10 THEN <<48 + n>> ELSE <<48 + (n \div 10), 48 + (n % 10)>>

\* a <= b in byte-wise dictionary order: a is a prefix of b, or is smaller
\* at the first byte where they differ
ByteLeq(a, b) ==
    \/ /\ Len(a) <= Len(b)
       /\ SubSeq(b, 1, Len(a)) = a
    \/ \E n \in 1..Len(a) :
          /\ n <= Len(b)
          /\ SubSeq(a, 1, n - 1) = SubSeq(b, 1, n - 1)
          /\ a[n] < b[n]

C2_SortedStable ==
    pc = "end" =>
        LET b == SongChunks(ThisOutput) IN
            \A m, n \in DOMAIN b :
                m < n =>
                    /\ ByteLeq(b[m].title, b[n].title)
                    /\ b[m].title = b[n].title => b[m].document < b[n].document

\* three songs, two of them with the same title, discovered out of order,
\* with an upper-case title after a lower-case one
C2_Witness ==
    /\ pc = "end"
    /\ Len(songs) = 3
    /\ \E m, n \in DOMAIN songs : m # n /\ songs[m].title = songs[n].title
    /\ \E m, n \in DOMAIN songsDir :
          /\ m < n
          /\ songsDir[m][1].value = <<97>>
          /\ songsDir[n][1].value = <<66>>

\* C3: the output file of a run is written in the order intro, song blocks,
\* closing marker: the intro is the first write and only the first, the
\* closing marker is the last write and ends the run, and a finished file
\* is the intro, one block per song and the marker
C3_WriteOrder ==
    outfile # None =>
        LET c == ThisOutput IN
            /\ \A n \in DOMAIN c : c[n].kind \in {"intro", "song", "close"}
            /\ \A n \in DOMAIN c : c[n].kind = "intro" <=> n = 1
            /\ \A n \in DOMAIN c : c[n].kind = "close" => (n = Len(c) /\ pc = "end")
            /\ pc = "end" =>
                  /\ Len(c) = Len(songs) + 2
                  /\ c[Len(c)].kind = "close"

C3_Witness ==
    /\ pc = "end"
    /\ Len(ThisOutput) >= 4

\* C4: one row of the table serves the whole run: the configuration, the
\* output file name, the intro's transposition slot, the voice template's
\* slot, every Song and every written song block (for "bb": openbook-Bb.ly
\* and "c d")
C4_OneTransposition ==
    PastResolve =>
        LET row == SpecRow(Key) IN
            /\ conf = row
            /\ outfile # None =>
                  outfile[1] = STR_openbook \o row.display_text \o STR_dot_ly
            /\ cells["intro"] # None =>
                  \E n \in 0..Len(songsDir) :
                      cells["intro"][1] = Fill(IntroShape, row.display_text, Digits(n))
            /\ cells["voice"] # None =>
                  cells["voice"][1] = Fill(VoiceShape, row.lilypond_text, <<>>)
            /\ \A n \in DOMAIN songs : songs[n].transpose_text = row
            /\ \A n \in DOMAIN ThisOutput :
                  ThisOutput[n].kind = "song" =>
                      ThisOutput[n].text = Fill(VoiceShape, row.lilypond_text, <<>>)
            /\ Key = STR_bb =>
                  /\ outfile # None =>
                        outfile[1] = <<111, 112, 101, 110, 98, 111, 111, 107, 45,
                                       66, 98, 46, 108, 121>>
                  /\ cells["voice"] # None =>
                        cells["voice"][1] = <<116, 114, 32, 99, 32, 100, 32, 123>>

C4_Witness ==
    /\ pc = "end"
    /\ args = Some(STR_bb)
    /\ Len(SongChunks(ThisOutput)) >= 2

\* C5: when a template cannot be read the run has not created its output
\* file, and the working directory is as the run found it
C5_NoOutputOnTemplateFailure ==
    TemplateFailure => (outfile = None /\ fs = fs0)

C5_Witness ==
    /\ TemplateFailure
    /\ panic = "Unable to read voice template"
    /\ songs # <<>>

\* C6 as claimed: when a template cannot be read, no song file has been
\* read or parsed into a Song
C6_NoSongBeforeTemplateFailure ==
    TemplateFailure => songs = <<>>

\* C6 as amended: when a template cannot be read, every discovered song file
\* has been read and parsed into a Song, and no song has been written
C6_SongsParsedNotWritten ==
    TemplateFailure =>
        /\ Len(songs) = Len(songsDir)
        /\ stdout = <<>>
        /\ SongChunks(ThisOutput) = <<>>

C6_Witness ==
    /\ TemplateFailure
    /\ panic = "Unable to read intro template"
    /\ Len(songs) >= 2

\* C7: with a song file that has no title, the run never gets past song
\* parsing, where it can only end by a panic, and the output file is never
\* created
SomeTitleMissing ==
    \E k \in DOMAIN songsDir :
        \A n \in DOMAIN songsDir[k] : songsDir[k][n].key # "title"

C8_UnknownKeyExitsZero ==
    /\ (args # None /\ args[1] \notin SpecKeys /\ pc # "parse_args") =>
          /\ pc = "resolve"
          /\ paths = <<>>
          /\ songs = <<>>
          /\ \A n \in TemplateNames : cells[n] = None
          /\ outfile = None
          /\ fs = fs0
          /\ ~Running =>
                /\ exit_code = 0
                /\ stderr = <<STR_parse_err \o args[1] \o STR_rbracket>>
    /\ (args = None /\ pc = "resolve") => Running
    /\ (args = None /\ PastResolve) => conf = SpecRow(STR_c)

C8_Witness ==
    /\ Failed("resolve")
    /\ exit_code = 0
    /\ args = Some(STR_bass)
    /\ fs0 # << >>

\* C9: a run that succeeds where an earlier run with the same key left its
\* finished output file leaves that file with the same content, that of a
\* single run
Complete(c) == c # <<>> /\ c[Len(c)].kind = "close"

C9_RerunOverwrites ==
    (pc = "end" /\ outfile[1] \in DOMAIN fs0 /\ Complete(fs0[outfile[1]])) =>
        /\ fs[outfile[1]] = fs0[outfile[1]]
        /\ Len(fs[outfile[1]]) = Len(songsDir) + 2

C9_Witness ==
    /\ run = 2
    /\ pc = "end"
    /\ outfile[1] \in DOMAIN fs0
    /\ Complete(fs0[outfile[1]])
    /\ songs # <<>>

\* C10: when a run has succeeded, the number in the intro's song-count slot
\* is the number of song blocks in the file, which is the number of song
\* files discovered, and each discovered file has exactly one block
C10_CountMatches ==
    pc = "end" =>
        LET c == ThisOutput
            b == SongChunks(c)
        IN /\ Len(b) = Len(songsDir)
           /\ \A k \in DOMAIN songsDir :
                 Cardinality({n \in DOMAIN b : b[n].document = k}) = 1
           /\ c[1].text = Fill(IntroShape, conf.display_text, Digits(Len(b)))

C10_Witness ==
    /\ pc = "end"
    /\ Len(songsDir) >= 2
    /\ Len(SongChunks(ThisOutput)) = Len(songsDir)

====
